---- MODULE Spec2Model ----
(***************************************************************************)
(* The naive gossip propagation simulator (package naivep2p), the trace    *)
(* analysis of package stats, and the connection phase of the whisperv6    *)
(* simulator's constructor.                                                *)
(*                                                                         *)
(* One goroutine per node (runNode), one goroutine per dispatched message  *)
(* (sendMessage), the caller's goroutine inside SendMessage and the        *)
(* goroutine that waits for the WaitGroup.  All channels are unbuffered,   *)
(* so a channel operation is a rendezvous of the two goroutines.           *)
(*                                                                         *)
(* Time is counted in ticks of 10 seconds; a goroutine may be delayed for  *)
(* any time between two of its steps (Go promises no more).                *)
(***************************************************************************)
EXTENDS Integers, Sequences, FiniteSets, Bags, TLC

\* ------------------------------------------------------------- bounds
MaxNodes == 3
MaxLinks == 2
MaxTTL == 3
MaxDelay == 1
MaxRounds == 2
MaxWidth == 2
MaxHits == 2

\* time.NewTimer(10 * time.Second), in ticks of 10 seconds
Window == 1

\* gossip.NewSimulator(network, 4, 10): the width the simulation is built with
SimulationWidth == 4

VARIABLES
    nodeCount,   \* len(data.Nodes())
    links,       \* data.Links(): sequence of <<from, to>> index pairs
    delay,       \* Simulator.delay, in ticks
    peersToSendTo, \* Simulator.peersToSendTo: the configured fan-out width N
    peers,       \* Simulator.peers
    wg,          \* Simulator.wg: the WaitGroup counter
    pc,          \* runNode(i): "select" | "propagate" | "exhausted" | "timedout"
    cache,       \* runNode(i): the keys of its cache map
    timer,       \* runNode(i): ticks until t.C holds a value (0: it does)
    held,        \* runNode(i): the message it is propagating
    sleepLeft,   \* runNode(i): ticks left of time.Sleep(s.delay)
    sinceRecv,   \* runNode(i): ticks since it last took a message (or started)
    inflight,    \* bag of sendMessage goroutines blocked on s.nodesCh[to] <- message
    reporting,   \* bag of sendMessage goroutines blocked on s.reportCh <- entry
    smPc,        \* SendMessage: "idle" | "propagate" | "loop" | "returned" | "fatal"
    startIdx,    \* SendMessage: startNodeIdx
    ttl0,        \* SendMessage: ttl
    smSleep,     \* SendMessage: ticks left of the seed fan-out's time.Sleep
    ret,         \* SendMessage: ret, the entries drained so far (a bag: nothing reads their order)
    waiter,      \* the wg.Wait goroutine: "none" | "wait" | "send"
    round,       \* number of SendMessage calls made so far
    dispatched,  \* history: bag of the dispatches of this round
    fanouts,     \* history: fan-outs made by runNode(i) in this round
    seedFanouts, \* history: seed fan-outs made in this round
    delivered,   \* history: messages taken by actors from their channels in this round
    anaLog,      \* Analyze: the propagation.Log it is given
    anaStats,    \* Analyze: the Stats it returns (NoStats before the call)
    wsPc,        \* whisperv6.NewSimulator: "none" | "loop" | "select" | "unsubscribe" | "wait" | "returned"
    wsGo,        \* the connecting goroutine: "none" | "connecting" | "done"
    wsLink,      \* the connecting goroutine: position in range data.Links()
    count,       \* whisperv6.NewSimulator: count
    connected,   \* whisperv6.NewSimulator: connected
    conns,       \* the connections the network holds (what GetConn finds)
    upEvents     \* connection-up events the network has yet to send to the subscriber

vars == <<nodeCount, links, delay, peersToSendTo, peers, wg, pc, cache, timer, held,
          sleepLeft, sinceRecv, inflight, reporting, smPc, startIdx, ttl0, smSleep, ret,
          waiter, round, dispatched, fanouts, seedFanouts, delivered, anaLog, anaStats,
          wsPc, wsGo, wsLink, count, connected, conns, upEvents>>

topoVars == <<nodeCount, links, delay, peersToSendTo, peers>>
actorVars == <<pc, cache, timer, held, sleepLeft, sinceRecv>>
histVars == <<dispatched, fanouts, seedFanouts, delivered>>
anaVars == <<anaLog, anaStats>>
whisperVars == <<wsPc, wsGo, wsLink, count, connected, conns, upEvents>>
\* what no step of a propagation round touches
fixedVars == <<topoVars, anaVars, whisperVars>>
\* the state of the gossip engine and of its round
engineVars == <<wg, actorVars, inflight, reporting, smPc, startIdx, ttl0, smSleep, ret,
                waiter, round, histVars>>

Nodes == 0 .. (nodeCount - 1)

NoMessage == [Content |-> "", TTL |-> 0, hop |-> 0]

\* ------------------------------------------------------------ helpers

\* For every link (a,b): b is appended to peers[a] and a to peers[b];
\* parallel links give repeated peers.
RECURSIVE PrecalculatePeers(_, _)
PrecalculatePeers(ls, acc) ==
    IF ls = <<>> THEN acc
    ELSE LET a == Head(ls)[1]
             b == Head(ls)[2]
             acc1 == [acc EXCEPT ![a] = Append(@, b)]
             acc2 == [acc1 EXCEPT ![b] = Append(@, a)]
         IN PrecalculatePeers(Tail(ls), acc2)

\* s.peers[from]: a map lookup, nil for a key the map does not hold
PeersOf(from) == IF from \in DOMAIN peers THEN peers[from] ELSE <<>>

\* a propagateMessage that sends to the first peersToSendTo peers only
SpawnedToWidth(from, message) ==
    LET all == PeersOf(from)
        ps == SubSeq(all, 1, IF peersToSendTo < Len(all) THEN peersToSendTo ELSE Len(all))
        tos == {ps[k] : k \in 1 .. Len(ps)}
    IN [s \in {[from |-> from, to |-> p, msg |-> message] : p \in tos}
            |-> Cardinality({k \in 1 .. Len(ps) : ps[k] = s.to})]

\* the goroutines started by the loop of propagateMessage
Spawned(from, message) ==
    LET ps == PeersOf(from)
        tos == {ps[k] : k \in 1 .. Len(ps)}
    IN [s \in {[from |-> from, to |-> p, msg |-> message] : p \in tos}
            |-> Cardinality({k \in 1 .. Len(ps) : ps[k] = s.to})]

\* the same goroutines, as the history records them: by sender, receiver and hop
SpawnedHist(from, message) ==
    LET sp == Spawned(from, message)
    IN [d \in {[from |-> s.from, to |-> s.to, hop |-> s.msg.hop] : s \in DOMAIN sp}
            |-> sp[[from |-> d.from, to |-> d.to, msg |-> message]]]

\* a runNode that forgets message.TTL--
DecTTLForgotten(t) == t

\* message.TTL--
DecTTL(t) == t - 1

\* if message.TTL == 0 { return }
Exhausted(t) == t = 0

\* a runNode that finds no message in its cache
CachedNever(i, message) == FALSE

\* if cache[message.Content] { continue }
Cached(i, message) == message.Content \in cache[i]

\* ---------------------------------------------------------------- Init

\* the links a topology of n nodes may hold (one orientation each, no self-links)
LinkPairs(n) == {<<a, b>> \in (0 .. n - 1) \X (0 .. n - 1) : a < b}

\* The link lists of at most len links, up to the order of the links (which
\* only orders the peer lists, and these are read as bags of destinations).
Ordered(p, q) == p[1] < q[1] \/ (p[1] = q[1] /\ p[2] <= q[2])

LinkSeqs(n, len) ==
    {t \in UNION {[1 .. k -> LinkPairs(n)] : k \in 0 .. len} :
        \A k \in 1 .. Len(t) - 1 : Ordered(t[k], t[k + 1])}

\* NewSimulator: the state once every runNode goroutine waits in its select
Constructed(n, ls, N, d) ==
    /\ nodeCount = n
    /\ links = ls
    /\ peersToSendTo = N
    /\ delay = d
    /\ peers = PrecalculatePeers(ls, [i \in 0 .. n - 1 |-> <<>>])
    /\ wg = n
    /\ pc = [i \in 0 .. n - 1 |-> "select"]
    /\ cache = [i \in 0 .. n - 1 |-> {}]
    /\ timer = [i \in 0 .. n - 1 |-> Window]
    /\ held = [i \in 0 .. n - 1 |-> NoMessage]
    /\ sleepLeft = [i \in 0 .. n - 1 |-> 0]
    /\ sinceRecv = [i \in 0 .. n - 1 |-> 0]
    /\ inflight = EmptyBag
    /\ reporting = EmptyBag
    /\ smPc = "idle"
    /\ startIdx = 0
    /\ ttl0 = 0
    /\ smSleep = 0
    /\ ret = EmptyBag
    /\ waiter = "none"
    /\ round = 0
    /\ dispatched = EmptyBag
    /\ fanouts = [i \in 0 .. n - 1 |-> 0]
    /\ seedFanouts = 0
    /\ delivered = 0

\* no log is under analysis
NoLog == [Nodes |-> <<>>, Indices |-> <<>>]
NoStats == [NodeHits |-> << >>,
            NodeCoverage |-> [actual |-> 0, total |-> 0],
            LinkCoverage |-> [actual |-> 0, total |-> 0]]
AnalysisIdle == anaLog = NoLog /\ anaStats = NoStats

\* no whisperv6 simulator is under construction
WhisperIdle ==
    /\ wsPc = "none"
    /\ wsGo = "none"
    /\ wsLink = 0
    /\ count = 0
    /\ connected = 0
    /\ conns = {}
    /\ upEvents = 0

Init ==
    \E n \in 1 .. MaxNodes :
        \E ls \in LinkSeqs(n, MaxLinks) :
            \E d \in 0 .. MaxDelay :
                /\ Constructed(n, ls, SimulationWidth, d)
                /\ AnalysisIdle
                /\ WhisperIdle

\* ------------------------------------------------------------- actions

\* a SendMessage that starts the node goroutines anew for its round
DispatchRestartingNodes(startNodeIdx, ttl) ==
    /\ round' = round + 1
    /\ startIdx' = startNodeIdx
    /\ ttl0' = ttl
    /\ smSleep' = delay
    /\ smPc' = "propagate"
    /\ ret' = EmptyBag
    /\ dispatched' = EmptyBag
    /\ fanouts' = [i \in Nodes |-> 0]
    /\ seedFanouts' = 0
    /\ delivered' = 0
    /\ wg' = nodeCount
    /\ pc' = [i \in Nodes |-> "select"]
    /\ cache' = [i \in Nodes |-> {}]
    /\ timer' = [i \in Nodes |-> Window]
    /\ sinceRecv' = [i \in Nodes |-> 0]
    /\ UNCHANGED <<fixedVars, held, sleepLeft, inflight, reporting, waiter>>

\* SendMessage up to the time.Sleep of the seed propagateMessage
Dispatch(startNodeIdx, ttl) ==
    /\ round' = round + 1
    /\ startIdx' = startNodeIdx
    /\ ttl0' = ttl
    /\ smSleep' = delay
    /\ smPc' = "propagate"
    /\ ret' = EmptyBag
    /\ dispatched' = EmptyBag
    /\ fanouts' = [i \in Nodes |-> 0]
    /\ seedFanouts' = 0
    /\ delivered' = 0
    /\ UNCHANGED <<fixedVars, actorVars, wg, inflight, reporting, waiter>>

\* SendMessage called on a freshly constructed engine
SendMessage(startNodeIdx, ttl) ==
    /\ smPc = "idle"
    /\ Dispatch(startNodeIdx, ttl)

\* SendMessage called again on the same engine, after an earlier call returned
SendMessageAgain(startNodeIdx, ttl) ==
    /\ smPc = "returned"
    /\ round < MaxRounds
    /\ Dispatch(startNodeIdx, ttl)

\* the seed propagateMessage after its sleep, and the start of the wg.Wait goroutine
SeedFanout ==
    /\ smPc = "propagate"
    /\ smSleep = 0
    /\ LET message == [Content |-> "dummy", TTL |-> ttl0, hop |-> 1]
       IN /\ inflight' = inflight (+) Spawned(startIdx, message)
          /\ dispatched' = dispatched (+) SpawnedHist(startIdx, message)
    /\ seedFanouts' = seedFanouts + 1
    /\ waiter' = "wait"
    /\ smPc' = "loop"
    /\ UNCHANGED <<fixedVars, actorVars, wg, reporting, startIdx, ttl0, smSleep, ret,
                   round, fanouts, delivered>>

\* a completion signal that does not wait for the counter
WaiterWakeEarly ==
    /\ waiter = "wait"
    /\ waiter' = "send"
    /\ UNCHANGED <<fixedVars, actorVars, wg, inflight, reporting, smPc, startIdx, ttl0,
                   smSleep, ret, round, histVars>>

\* s.wg.Wait() returns
WaiterWake ==
    /\ waiter = "wait"
    /\ wg = 0
    /\ waiter' = "send"
    /\ UNCHANGED <<fixedVars, actorVars, wg, inflight, reporting, smPc, startIdx, ttl0,
                   smSleep, ret, round, histVars>>

\* case val := <-s.reportCh, with the sendMessage goroutine that sends it
DrainReport(s) ==
    /\ smPc = "loop"
    /\ BagIn(s, reporting)
    /\ reporting' = reporting (-) SetToBag({s})
    /\ ret' = ret (+) SetToBag({s})
    /\ UNCHANGED <<fixedVars, actorVars, wg, inflight, smPc, startIdx, ttl0, smSleep,
                   waiter, round, histVars>>

\* a SendMessage that returns at once when the topology has a single actor
ReceiveDoneOrAlone ==
    /\ smPc = "loop"
    /\ waiter = "send" \/ nodeCount = 1
    /\ waiter' = IF waiter = "send" THEN "none" ELSE waiter
    /\ smPc' = "returned"
    /\ UNCHANGED <<fixedVars, actorVars, wg, inflight, reporting, startIdx, ttl0,
                   smSleep, ret, round, histVars>>

\* case <-done, with the wg.Wait goroutine's done <- true
ReceiveDone ==
    /\ smPc = "loop"
    /\ waiter = "send"
    /\ waiter' = "none"
    /\ smPc' = "returned"
    /\ UNCHANGED <<fixedVars, actorVars, wg, inflight, reporting, startIdx, ttl0,
                   smSleep, ret, round, histVars>>

\* case message := <-ch in runNode(i), with the sendMessage goroutine that sends it.
\* The locals of a runNode that returns (cache, t) die with it: they are cleared.
Receive(i, s) ==
    /\ pc[i] = "select"
    /\ BagIn(s, inflight)
    /\ s.to = i
    /\ inflight' = inflight (-) SetToBag({s})
    /\ reporting' = reporting (+) SetToBag({[from |-> s.from, to |-> s.to]})
    /\ delivered' = delivered + 1
    /\ IF Cached(i, s.msg)
       THEN /\ sinceRecv' = [sinceRecv EXCEPT ![i] = 0]
            /\ UNCHANGED <<pc, cache, timer, held, sleepLeft, wg>>
       ELSE IF Exhausted(DecTTL(s.msg.TTL))
            THEN /\ pc' = [pc EXCEPT ![i] = "exhausted"]
                 /\ wg' = wg - 1
                 /\ cache' = [cache EXCEPT ![i] = {}]
                 /\ timer' = [timer EXCEPT ![i] = 0]
                 /\ sinceRecv' = [sinceRecv EXCEPT ![i] = 0]
                 /\ UNCHANGED <<held, sleepLeft>>
            ELSE /\ pc' = [pc EXCEPT ![i] = "propagate"]
                 /\ cache' = [cache EXCEPT ![i] = @ \cup {s.msg.Content}]
                 /\ held' = [held EXCEPT ![i] =
                                [Content |-> s.msg.Content,
                                 TTL |-> DecTTL(s.msg.TTL),
                                 hop |-> s.msg.hop + 1]]
                 /\ sleepLeft' = [sleepLeft EXCEPT ![i] = delay]
                 /\ sinceRecv' = [sinceRecv EXCEPT ![i] = 0]
                 /\ UNCHANGED <<timer, wg>>
    /\ UNCHANGED <<fixedVars, smPc, startIdx, ttl0, smSleep, ret, waiter, round,
                   dispatched, fanouts, seedFanouts>>

\* propagateMessage(i, message) in runNode(i), after its sleep
Fanout(i) ==
    /\ pc[i] = "propagate"
    /\ sleepLeft[i] = 0
    /\ inflight' = inflight (+) Spawned(i, held[i])
    /\ dispatched' = dispatched (+) SpawnedHist(i, held[i])
    /\ fanouts' = [fanouts EXCEPT ![i] = @ + 1]
    /\ pc' = [pc EXCEPT ![i] = "select"]
    /\ held' = [held EXCEPT ![i] = NoMessage]
    /\ UNCHANGED <<fixedVars, cache, timer, sleepLeft, sinceRecv, wg, reporting, smPc,
                   startIdx, ttl0, smSleep, ret, waiter, round, seedFanouts, delivered>>

\* a runNode whose timeout path misses the s.wg.Done()
TimeoutWithoutDone(i) ==
    /\ pc[i] = "select"
    /\ timer[i] = 0
    /\ pc' = [pc EXCEPT ![i] = "timedout"]
    /\ cache' = [cache EXCEPT ![i] = {}]
    /\ sinceRecv' = [sinceRecv EXCEPT ![i] = 0]
    /\ UNCHANGED <<fixedVars, timer, held, sleepLeft, inflight,
                   reporting, smPc, startIdx, ttl0, smSleep, ret, waiter, round,
                   wg, histVars>>

\* case <-t.C in runNode(i), and the deferred s.wg.Done()
Timeout(i) ==
    /\ pc[i] = "select"
    /\ timer[i] = 0
    /\ pc' = [pc EXCEPT ![i] = "timedout"]
    /\ wg' = wg - 1
    /\ cache' = [cache EXCEPT ![i] = {}]
    /\ sinceRecv' = [sinceRecv EXCEPT ![i] = 0]
    /\ UNCHANGED <<fixedVars, timer, held, sleepLeft, inflight,
                   reporting, smPc, startIdx, ttl0, smSleep, ret, waiter, round,
                   dispatched, fanouts, seedFanouts, delivered>>

Dec(x) == IF x > 0 THEN x - 1 ELSE 0
Inc(x) == IF x < Window THEN x + 1 ELSE Window

\* 10 seconds pass
Tick ==
    /\ timer' = [i \in Nodes |-> Dec(timer[i])]
    /\ sleepLeft' = [i \in Nodes |-> Dec(sleepLeft[i])]
    /\ sinceRecv' = [i \in Nodes |-> IF pc[i] \in {"select", "propagate"}
                                     THEN Inc(sinceRecv[i]) ELSE 0]
    /\ smSleep' = Dec(smSleep)
    /\ UNCHANGED <<fixedVars, pc, cache, held, wg, inflight, reporting, smPc, startIdx,
                   ttl0, ret, waiter, round, histVars>>

\* The start indices and ttls a caller passes: nodeCount stands for every index
\* the topology does not have, 0 for every ttl that is not positive.
StartIndices == 0 .. nodeCount
TTLs == 0 .. MaxTTL

\* the steps of the goroutines of a round, and time
Step ==
    \/ SeedFanout
    \/ WaiterWake
    \/ \E s \in BagToSet(reporting) : DrainReport(s)
    \/ ReceiveDone
    \/ \E i \in Nodes : \E s \in BagToSet(inflight) : Receive(i, s)
    \/ \E i \in Nodes : Fanout(i)
    \/ \E i \in Nodes : Timeout(i)
    \/ Tick

\* one propagation round per construction
Next ==
    \/ \E startNodeIdx \in StartIndices, ttl \in TTLs : SendMessage(startNodeIdx, ttl)
    \/ Step

Spec == Init /\ [][Next]_vars

\* the engine constructed with any fan-out width N
InitWidth ==
    \E n \in 1 .. MaxNodes :
        \E ls \in LinkSeqs(n, MaxLinks) :
            \E N \in 0 .. MaxWidth, d \in 0 .. MaxDelay :
                /\ Constructed(n, ls, N, d)
                /\ AnalysisIdle
                /\ WhisperIdle

SpecWidth == InitWidth /\ [][Next]_vars

\* the engine is used again after a round
NextReuse ==
    \/ Next
    \/ \E startNodeIdx \in StartIndices, ttl \in TTLs :
           SendMessageAgain(startNodeIdx, ttl)

SpecReuse == Init /\ [][NextReuse]_vars

\* Scenario A: the 4-node ring, one message from node 0 with ttl 3
RingLinks == <<<<0, 1>>, <<1, 2>>, <<2, 3>>, <<3, 0>>>>

InitRing ==
    \E d \in 0 .. MaxDelay :
        /\ Constructed(4, RingLinks, SimulationWidth, d)
        /\ AnalysisIdle
        /\ WhisperIdle

NextRing ==
    \/ SendMessage(0, 3)
    \/ Step

SpecRing == InitRing /\ [][NextRing]_vars

\* ------------------------------------------------------ trace analysis

RECURSIVE SumOver(_, _)
SumOver(f, S) ==
    IF S = {} THEN 0
    ELSE LET x == CHOOSE y \in S : TRUE IN f[x] + SumOver(f, S \ {x})

\* the index of the link an entry travelled, in either direction; -1 if none
FindLink(from, to) ==
    LET hits == {k \in 1 .. Len(links) :
                    links[k] = <<from, to>> \/ links[k] = <<to, from>>}
    IN IF hits = {} THEN -1 ELSE (CHOOSE k \in hits : \A j \in hits : k <= j) - 1

\* the entries of a bag as a list, each as often as the bag holds it
RECURSIVE BagToSeq(_)
BagToSeq(B) ==
    IF BagToSet(B) = {} THEN <<>>
    ELSE LET e == CHOOSE x \in BagToSet(B) : TRUE
         IN <<e>> \o BagToSeq(B (-) SetToBag({e}))

\* propagation.Log of the drained entries: per entry (each has its own
\* timestamp) the list of nodes arrived at (Nodes) and of links hit (Indices);
\* an entry that travelled no link of the topology is left out
LogEntries2Log(entries) ==
    LET Known(e) == FindLink(e.from, e.to) # -1
        es == SelectSeq(BagToSeq(entries), Known)
    IN [Nodes |-> [k \in 1 .. Len(es) |-> <<es[k].to>>],
        Indices |-> [k \in 1 .. Len(es) |-> <<FindLink(es[k].from, es[k].to)>>]]

\* for _, xs := range lists { for _, j := range xs { ... } }: the values visited
RECURSIVE Flatten(_)
Flatten(lists) ==
    IF lists = <<>> THEN <<>> ELSE Head(lists) \o Flatten(Tail(lists))

\* g.NodeIDByIdx(j): the stable identifier of node index j
NodeIDByIdx(j) == <<"node", j>>

\* nodeHits[id]++ for the node indices js, one after the other
RECURSIVE countNodeHits(_, _)
countNodeHits(js, nodeHits) ==
    IF js = <<>> THEN nodeHits
    ELSE LET id == NodeIDByIdx(Head(js))
             hit == IF id \in DOMAIN nodeHits
                    THEN [nodeHits EXCEPT ![id] = @ + 1]
                    ELSE nodeHits @@ (id :> 1)
         IN countNodeHits(Tail(js), hit)

\* an analyzeNodeHits that marks the nodes hit and does not count the hits
analyzeNodeHitsMarking(plog) ==
    LET js == Flatten(plog.Nodes)
    IN [id \in {NodeIDByIdx(js[k]) : k \in 1 .. Len(js)} |-> 1]

\* analyzeNodeHits: the map it returns (the histogram is not modelled)
analyzeNodeHits(plog) == countNodeHits(Flatten(plog.Nodes), << >>)

NewCoverage(actual, total) == [actual |-> actual, total |-> total]

analyzeNodeCoverage(nodeHits) == NewCoverage(Cardinality(DOMAIN nodeHits), nodeCount)

\* an analyzeLinkCoverage that counts the hits and not the links hit
analyzeLinkCoverageByHits(plog) ==
    NewCoverage(Len(Flatten(plog.Indices)), Len(links))

analyzeLinkCoverage(plog) ==
    LET js == Flatten(plog.Indices)
        linkHits == {js[k] : k \in 1 .. Len(js)}
    IN NewCoverage(Cardinality(linkHits), Len(links))

Analyze(plog) ==
    LET nodeHits == analyzeNodeHits(plog)
    IN [NodeHits |-> nodeHits,
        NodeCoverage |-> analyzeNodeCoverage(nodeHits),
        LinkCoverage |-> analyzeLinkCoverage(plog)]

\* the lists of at most len values of S
Lists(S, len) == UNION {[1 .. k -> S] : k \in 0 .. len}

\* the list js cut into lists of g values (the last may be shorter)
RECURSIVE Chunks(_, _)
Chunks(js, g) ==
    IF js = <<>> THEN <<>>
    ELSE IF Len(js) <= g THEN <<js>>
    ELSE <<SubSeq(js, 1, g)>> \o Chunks(SubSeq(js, g + 1, Len(js)), g)

\* Analyze is given a log whose node and link indices the topology has
InitAnalyze ==
    \E n \in 1 .. MaxNodes :
        \E ls \in LinkSeqs(n, MaxLinks) :
            \E js \in Lists(0 .. n - 1, MaxHits),
               ks \in Lists(0 .. Len(ls) - 1, MaxHits),
               g \in 1 .. MaxHits :
                /\ Constructed(n, ls, SimulationWidth, 0)
                /\ anaLog = [Nodes |-> Chunks(js, g), Indices |-> Chunks(ks, g)]
                /\ anaStats = NoStats
                /\ WhisperIdle

\* stats := Analyze(g, plog)
AnalyzeLog ==
    /\ anaStats = NoStats
    /\ anaStats' = Analyze(anaLog)
    /\ UNCHANGED <<topoVars, engineVars, anaLog, whisperVars>>

NextAnalyze == AnalyzeLog

SpecAnalyze == InitAnalyze /\ [][NextAnalyze]_vars

\* ------------------------------- whisperv6.NewSimulator: connecting

\* NewSimulator once it has subscribed to the network's events and started the
\* connecting goroutine; the nodes are created and started
InitWhisper ==
    \E n \in 1 .. MaxNodes :
        \E ls \in LinkSeqs(n, MaxLinks) :
            /\ Constructed(n, ls, SimulationWidth, 0)
            /\ AnalysisIdle
            /\ wsPc = "loop"
            /\ wsGo = "connecting"
            /\ wsLink = 1
            /\ count = 0
            /\ connected = 0
            /\ conns = {}
            /\ upEvents = 0

\* sim.network.GetConn(node1.ID(), node2.ID()) != nil
LinkExists(link) == {link[1], link[2]} \in conns

\* err := sim.connectNodes(link.FromIdx(), link.ToIdx()): ErrLinkExists, or the
\* network connects the two nodes and will send the connection-up event
ConnectLink ==
    /\ wsGo = "connecting"
    /\ wsLink <= Len(links)
    /\ IF LinkExists(links[wsLink])
       THEN /\ wsLink' = wsLink + 1
            /\ UNCHANGED <<wsGo, conns, upEvents>>
       ELSE /\ conns' = conns \cup {{links[wsLink][1], links[wsLink][2]}}
            /\ upEvents' = upEvents + 1
            /\ wsGo' = "counting"
            /\ UNCHANGED wsLink
    /\ UNCHANGED <<topoVars, engineVars, anaVars, wsPc, count, connected>>

\* else if err == nil { count++ }
CountLink ==
    /\ wsGo = "counting"
    /\ count' = count + 1
    /\ wsLink' = wsLink + 1
    /\ wsGo' = "connecting"
    /\ UNCHANGED <<topoVars, engineVars, anaVars, wsPc, connected, conns, upEvents>>

\* close(connectingDone)
ConnectingDone ==
    /\ wsGo = "connecting"
    /\ wsLink > Len(links)
    /\ wsGo' = "done"
    /\ UNCHANGED <<topoVars, engineVars, anaVars, wsPc, wsLink, count, connected, conns,
                   upEvents>>

\* for connected < count && subErr == nil: count is read while the connecting
\* goroutine writes it, with nothing that orders the read after a write, so the
\* read sees the initial 0 or the value of any write made so far
LoopTest ==
    /\ wsPc = "loop"
    /\ \E seen \in 0 .. count :
           wsPc' = IF connected < seen THEN "select" ELSE "unsubscribe"
    /\ UNCHANGED <<topoVars, engineVars, anaVars, wsGo, wsLink, count, connected, conns,
                   upEvents>>

\* case event := <-events, with a connection event whose Conn.Up is set
ReceiveConnUp ==
    /\ wsPc = "select"
    /\ upEvents > 0
    /\ upEvents' = upEvents - 1
    /\ connected' = connected + 1
    /\ wsPc' = "loop"
    /\ UNCHANGED <<topoVars, engineVars, anaVars, wsGo, wsLink, count, conns>>

\* case event := <-events, with any other event of the network
ReceiveOtherEvent ==
    /\ wsPc = "select"
    /\ wsPc' = "loop"
    /\ UNCHANGED <<topoVars, engineVars, anaVars, wsGo, wsLink, count, connected, conns,
                   upEvents>>

\* sub.Unsubscribe() after the loop
Unsubscribe ==
    /\ wsPc = "unsubscribe"
    /\ wsPc' = "wait"
    /\ UNCHANGED <<topoVars, engineVars, anaVars, wsGo, wsLink, count, connected, conns,
                   upEvents>>

\* <-connectingDone; return sim
ReturnSimulator ==
    /\ wsPc = "wait"
    /\ wsGo = "done"
    /\ wsPc' = "returned"
    /\ UNCHANGED <<topoVars, engineVars, anaVars, wsGo, wsLink, count, connected, conns,
                   upEvents>>

NextWhisper ==
    \/ ConnectLink
    \/ CountLink
    \/ ConnectingDone
    \/ LoopTest
    \/ ReceiveConnUp
    \/ ReceiveOtherEvent
    \/ Unsubscribe
    \/ ReturnSimulator

SpecWhisper == InitWhisper /\ [][NextWhisper]_vars

\* Fair scheduling: a goroutine that can take a step takes one, time passes,
\* and a select whose timer or done case stays ready takes it.
Fairness ==
    /\ WF_vars(Tick)
    /\ WF_vars(SeedFanout)
    /\ WF_vars(WaiterWake)
    /\ WF_vars(ReceiveDone)
    /\ \A i \in 0 .. MaxNodes - 1 : WF_vars(i \in Nodes /\ Fanout(i))
    /\ \A i \in 0 .. MaxNodes - 1 : WF_vars(i \in Nodes /\ Timeout(i))

FairSpec == Spec /\ Fairness

FairSpecReuse == SpecReuse /\ Fairness

\* ------------------------------------------------------------- claims

ValidStart == startIdx \in Nodes
\* a call made with the configuration the engine accepts
ValidCall == round >= 1 /\ ValidStart /\ ttl0 >= 1
Degree == Len(PeersOf(startIdx))
LogSize == BagCardinality(ret)
Terminated(i) == pc[i] \in {"exhausted", "timedout"}
AllTerminated == \A i \in Nodes : Terminated(i)
NoParallelLinks == \A j, k \in 1 .. Len(links) : links[j] = links[k] => j = k

\* C1: under fair scheduling, with every timer firing, a SendMessage call on a
\* freshly constructed engine returns, for every topology, start index and ttl.
C1_SendMessageReturns == (smPc \in {"propagate", "loop"}) ~> (smPc = "returned")

\* a call on a topology of isolated nodes has returned
C1_Witness == smPc = "returned" /\ nodeCount >= 2 /\ links = <<>> /\ startIdx = 0

\* C2: in a round every node fans out at most once (the seed fan-out is the
\* start node's), and without parallel links no (from,to) is dispatched twice.
C2_DedupIdempotence ==
    ValidCall =>
    /\ \A i \in Nodes : fanouts[i] + (IF i = startIdx THEN seedFanouts ELSE 0) <= 1
    /\ NoParallelLinks =>
          \A d \in BagToSet(dispatched) :
              /\ CopiesIn(d, dispatched) = 1
              /\ \A e \in BagToSet(dispatched) :
                     (e.from = d.from /\ e.to = d.to) => e = d

\* C3: with ttl >= 1 every dispatch has hop number <= ttl (the seed fan-out is
\* hop 1), and an actor that ended by hop exhaustion has dispatched nothing.
C3_TTLBound ==
    /\ ttl0 >= 1 => \A d \in BagToSet(dispatched) : d.hop <= ttl0
    /\ \A i \in Nodes : pc[i] = "exhausted" => (fanouts[i] = 0 /\ held[i] = NoMessage)

\* an actor ended by hop exhaustion after a dispatch at the last hop the ttl allows
C3_Witness ==
    /\ ttl0 >= 2
    /\ \E i \in Nodes : pc[i] = "exhausted"
    /\ \E d \in BagToSet(dispatched) : d.hop = ttl0

\* C4: when the start node has a peer, the returned log has at least one entry.
C4_LogNonEmpty == (smPc = "returned" /\ ValidCall /\ Degree >= 1) => LogSize >= 1

\* C5: SendMessage returns only when the completion counter is zero and every
\* actor has terminated; with a peerless start node, after that actor timed out.
C5_ReturnsOnlyWhenAllDone ==
    smPc = "returned" =>
        /\ wg = 0
        /\ AllTerminated
        /\ (ValidStart /\ Degree = 0) => pc[startIdx] = "timedout"

\* a call with a peerless start node among several nodes has returned
C5_Witness == smPc = "returned" /\ ValidStart /\ Degree = 0 /\ nodeCount >= 2

\* C6: a round in which the start node has a peer and no hop event was observed
\* ends in a fatal error, not in a returned log.
C6_FailsLoudly ==
    (smPc \in {"returned", "fatal"} /\ ValidCall /\ Degree >= 1 /\ ret = EmptyBag)
        => smPc = "fatal"

\* C7: a call with a start index outside 0..N-1 or with ttl <= 0 is rejected:
\* nothing is dispatched, no actor receives anything, no log is returned.
C7_InvalidInputRejected ==
    (round >= 1 /\ (~ValidStart \/ ttl0 <= 0)) =>
        /\ dispatched = EmptyBag
        /\ delivered = 0
        /\ smPc # "returned"

\* C8: with ttl = 1 and a start node of degree d the returned log has exactly d
\* entries, all of them from the start node.
C8_ScenarioC ==
    (smPc = "returned" /\ ValidCall /\ ttl0 = 1) =>
        /\ LogSize = Degree
        /\ \A e \in BagToSet(ret) : e.from = startIdx

\* C9: on the 4-node ring with start 0 and ttl 3 the returned log has every
\* node as a receiver and every link traversed: both coverages are 4/4.
C9_ScenarioA ==
    smPc = "returned" =>
        LET stats == Analyze(LogEntries2Log(ret))
        IN /\ \A n \in Nodes : \E e \in BagToSet(ret) : e.to = n
           /\ stats.NodeCoverage = NewCoverage(4, 4)
           /\ stats.LinkCoverage = NewCoverage(4, 4)

\* C10: a further SendMessage on an engine whose actors have all terminated
\* delivers nothing to any actor, makes no actor fan out, and is never blocked:
\* once in its loop, the completion signal is on its way or ready to be taken.
C10_NoPropagationAfterExpiry ==
    round >= 2 =>
        /\ AllTerminated
        /\ delivered = 0
        /\ \A i \in Nodes : fanouts[i] = 0
        /\ smPc = "loop" => (ENABLED WaiterWake \/ ENABLED ReceiveDone)

\* a second call whose start node has peers has returned
C10_Witness == round = 2 /\ smPc = "returned" /\ ValidStart /\ Degree >= 1 /\ ttl0 >= 2

\* C11: for a log whose node and link indices the topology has, Analyze returns
\* NodeCoverage with total = number of nodes and LinkCoverage with total =
\* number of links, each with 0 <= actual <= total.
C11_CoverageBounds ==
    anaStats # NoStats =>
        /\ anaStats.NodeCoverage.total = nodeCount
        /\ 0 <= anaStats.NodeCoverage.actual
        /\ anaStats.NodeCoverage.actual <= anaStats.NodeCoverage.total
        /\ anaStats.LinkCoverage.total = Len(links)
        /\ 0 <= anaStats.LinkCoverage.actual
        /\ anaStats.LinkCoverage.actual <= anaStats.LinkCoverage.total

\* a log analysed that hits every node, and the only link more than once
C11_Witness ==
    /\ anaStats # NoStats
    /\ nodeCount >= 2
    /\ anaStats.NodeCoverage.actual = nodeCount
    /\ Len(links) = 1
    /\ Len(Flatten(anaLog.Indices)) >= 2
    /\ anaStats.LinkCoverage.actual = 1

\* the entries created so far in a first round: sendMessage calls NewLogEntry
\* once its message is taken, then waits for the entry to be drained
EntriesCreated == BagCardinality(reporting) + BagCardinality(ret)
Dispatches == BagCardinality(dispatched)

\* C12: every dispatch creates its log entry, whatever the peer does with the
\* message: when the call returns, as many entries were created as dispatches made.
C12_EntryPerDispatch ==
    (smPc = "returned" /\ ValidCall) => EntriesCreated = Dispatches

\* C13: an actor ends through its timeout only when a full window has passed
\* since it last took a message (or started).
C13_TimeoutAfterQuietWindow ==
    [][\A i \in Nodes :
          (ValidCall /\ pc[i] = "select" /\ pc'[i] = "timedout")
              => sinceRecv[i] >= Window]_vars

\* C14: the completion counter starts at the number of actors, and in every
\* state it is the number of actors that have not terminated (each terminating
\* actor has taken one off, by either way of ending); it is never negative.
C14_CounterCountsLiveActors ==
    /\ wg = Cardinality({i \in Nodes : ~Terminated(i)})
    /\ wg >= 0
    /\ (\A i \in Nodes : ~Terminated(i)) => wg = nodeCount

\* one actor ended by hop exhaustion, one by timeout, one still runs
C14_Witness ==
    /\ nodeCount = 3
    /\ wg = 1
    /\ \E i, j \in Nodes : pc[i] = "exhausted" /\ pc[j] = "timedout"

\* fan-outs made at node n in this round, the seed fan-out included
FanoutsAt(n) ==
    (IF n \in Nodes THEN fanouts[n] ELSE 0) + (IF n = startIdx THEN seedFanouts ELSE 0)

\* dispatches made from n to p in this round, whatever their hop
DispatchedTo(n, p) ==
    LET ds == {d \in BagToSet(dispatched) : d.from = n /\ d.to = p}
    IN SumOver([d \in ds |-> CopiesIn(d, dispatched)], ds)

\* how often p stands in peers[n]
Multiplicity(n, p) ==
    Cardinality({k \in 1 .. Len(PeersOf(n)) : PeersOf(n)[k] = p})

C16_ReturnsPromptly ==
    (nodeCount = 1 /\ ValidCall /\ smPc = "loop" /\ ~Terminated(0))
        => (ENABLED WaiterWake \/ ENABLED ReceiveDone)

\* C16, as the code has it: on a topology whose only node is the start node,
\* the call returns only after that actor's timeout has fired and ended it.
C16_ReturnsAfterTimeout ==
    (nodeCount = 1 /\ ValidCall /\ smPc = "returned")
        => (pc[0] = "timedout" /\ timer[0] = 0 /\ LogSize = 0)

\* a call on the single-node topology has returned
C16_Witness == nodeCount = 1 /\ ValidCall /\ smPc = "returned"

\* the places of the analysed log's arrival lists, and those that hold node n
ArrivalPlaces ==
    UNION {{<<g, k>> : k \in 1 .. Len(anaLog.Nodes[g])} : g \in 1 .. Len(anaLog.Nodes)}
Arrivals(n) == Cardinality({q \in ArrivalPlaces : anaLog.Nodes[q[1]][q[2]] = n})

\* C17: Analyze counts one hit per recorded arrival under the receiving node's
\* identifier: NodeHits[id(n)] is the number of occurrences of n in the arrival
\* lists, a node without arrival has no key, no other key exists, and the hits
\* sum to the number of arrivals.
C17_OneHitPerArrival ==
    anaStats # NoStats =>
        /\ \A n \in Nodes :
               IF Arrivals(n) = 0
               THEN NodeIDByIdx(n) \notin DOMAIN anaStats.NodeHits
               ELSE /\ NodeIDByIdx(n) \in DOMAIN anaStats.NodeHits
                    /\ anaStats.NodeHits[NodeIDByIdx(n)] = Arrivals(n)
        /\ DOMAIN anaStats.NodeHits \subseteq {NodeIDByIdx(n) : n \in Nodes}
        /\ SumOver(anaStats.NodeHits, DOMAIN anaStats.NodeHits)
               = Cardinality(ArrivalPlaces)

\* a log analysed in which one node arrives in two lists and another in none
C17_Witness ==
    /\ anaStats # NoStats
    /\ Len(anaLog.Nodes) = 2
    /\ \E n, o \in Nodes : Arrivals(n) = 2 /\ Arrivals(o) = 0

\* C18: the whisperv6 NewSimulator returns only after it has seen a
\* connection-up event for every link whose connect call succeeded.
C18_WaitsForAllConnections == wsPc = "returned" => connected >= count

\* C19: every message an actor took from its channel in the round has its
\* entry in the log the call returns: none is left with its sender.
C19_NoEntryLost ==
    (smPc = "returned" /\ ValidCall) => (LogSize = delivered /\ reporting = EmptyBag)

\* the sum of the lengths of all peer lists
PeerListsTotal == SumOver([i \in Nodes |-> Len(peers[i])], Nodes)

\* C20: in a round, for every ttl (ttl <= 0 included), an actor fans out at most
\* once from its receive loop and the seed fan-out is made once, so the start
\* node fans out at most twice; the dispatches, and with them the entries, never
\* exceed the sum of all peer-list lengths plus len(peers[start]).
C20_FanoutBound ==
    /\ \A i \in Nodes : fanouts[i] <= 1
    /\ seedFanouts <= 1
    /\ \A n \in Nodes \cup {startIdx} : FanoutsAt(n) <= (IF n = startIdx THEN 2 ELSE 1)
    /\ Dispatches <= PeerListsTotal + Degree
    /\ EntriesCreated <= Dispatches

\* with ttl 0 the start node has fanned out twice and the bound is attained
C20_Witness ==
    /\ ttl0 = 0
    /\ ValidStart
    /\ FanoutsAt(startIdx) = 2
    /\ Degree >= 1
    /\ Dispatches = PeerListsTotal + Degree

====
